---- MODULE Spec2Model ----
(***************************************************************************)
(* PerfectCircle: the gesture-capture state machine of the App component   *)
(* and its circle scoring function.                                        *)
(*                                                                         *)
(* The repository holds two versions of the component:                     *)
(*   impl = "window": src/unnamed/part_000, which attaches move/end        *)
(*                    listeners to the window on gesture-start;            *)
(*   impl = "canvas": src/App.tsx, which binds move/end/leave handlers to  *)
(*                    the canvas element.                                  *)
(* Both are modelled; Init picks one and it never changes.                 *)
(*                                                                         *)
(* React state updates are taken to be applied before the next event is    *)
(* dispatched (one handler = one atomic step).  The floating-point          *)
(* arithmetic of analyzeCircle is modelled with Precision significant bits *)
(* and round-to-nearest-even.                                             *)
(***************************************************************************)
EXTENDS Integers, Sequences, FiniteSets, TLC

\* ------------------------------------------------------------------ bounds
\* move events accepted after one gesture-start
MaxMoves == 9
\* deferred analysis callbacks that may be pending at once
MaxTimers == 2
\* significant bits of a floating-point number
Precision == 8
\* longest path handed to analyzeCircle on its own
MaxPathLen == 13

\* --------------------------------------------------------- program constants
\* `currentPoints.length < 10`, `path.length < 10`
MinPoints == 10
\* K = 3 tuning factor of the shape score
DeviationFactor == 3
\* maximum closing penalty
MaxClosingPenalty == 25
\* full score
FullScore == 100

\* ------------------------------------------------------------------ inputs
\* The pointer follows one of a few traces; a gesture may start on any of them
\* and each move event delivers the next sample of a trace that agrees with
\* the samples recorded so far.  Coordinates are surface-local pixels.
Shapes == {"dot", "ring"}

Ring == << <<10, 5>>, <<9, 8>>, <<6, 10>>, <<4, 10>>, <<1, 8>>,
           <<0, 5>>, <<1, 2>>, <<4, 0>>, <<6, 0>>, <<9, 2>> >>

\* the k-th sample (k >= 1) of a trace
Trace(shape, k) ==
    CASE shape = "dot"  -> <<5, 5>>
      [] shape = "ring" -> Ring[((k - 1) % Len(Ring)) + 1]

StartPoints == { Trace(s, 1) : s \in Shapes }

\* the samples a move event can deliver after `path` has been recorded
NextPoints(path) ==
    LET fits == { s \in Shapes :
                    \A i \in 1..Len(path) : path[i] = Trace(s, i) }
    IN  IF fits = {} THEN StartPoints
        ELSE { Trace(s, Len(path) + 1) : s \in fits }

\* AnalysisResult | null: null is the empty sequence, a result is <<record>>.
Null == <<>>

VARIABLES
    impl,           \* which version of the component is mounted
    mounted,        \* FALSE once the component has been unmounted
    appState,       \* useState<AppState>
    points,         \* useState<Point[]>: the Path
    result,         \* useState<AnalysisResult | null>
    copyStatus,     \* useState<CopyState> ("window" version only)
    listeners,      \* the move/end listener functions registered on the
                    \* window ("window" version)
    extraTouch,     \* a touch contact other than the one that draws is down
    timers,         \* pending analysis timeouts: the path each closure captured
    copyTimers,     \* TRUE while a "copied" reset timeout may be pending
    lastEvent,      \* history: the last event of the capture state machine
                    \* (start, move, end, timeout, reset, unmount) and the
                    \* state it found
    gesture,        \* history: the state the last gesture-start found, until
                    \* an event other than move or end intervenes, and the
                    \* number of move events since that gesture-start
    lastFinalized,  \* history: path of the last gesture-end with >= MinPoints
    scoredShort     \* history: analyzeCircle was called with < MinPoints points

vars == <<impl, mounted, appState, points, result, copyStatus, listeners,
          extraTouch, timers, copyTimers, lastEvent, gesture, lastFinalized,
          scoredShort>>

\* --------------------------------------------------------------- arithmetic
\* JavaScript numbers are binary floating-point numbers: every operation
\* returns the exact result rounded to the nearest number with a fixed count
\* of significant bits, ties to the even mantissa.  The model keeps that
\* rule with Precision significant bits in place of 53 (the exponent range
\* plays no part at pixel magnitudes and is left unbounded).  A number is
\* <<m, e>>, standing for m * 2^e, with m = 0 = e or
\* 2^(Precision-1) <= |m| < 2^Precision, so equal numbers are equal tuples.
\* Whole numbers below 2^Precision are exact, as whole pixels are in the
\* source; a whole number that needs all Precision bits behaves as a
\* fraction such as 0.1 does there.
Max(a, b) == IF a >= b THEN a ELSE b
Min(a, b) == IF a <= b THEN a ELSE b
Abs(a) == IF a < 0 THEN 0 - a ELSE a

\* `const x = v; ... F(x)`: v is evaluated once and F is applied to its value
Const(v, F(_)) == CHOOSE r \in { F(x) : x \in {v} } : TRUE

RECURSIVE SqrtIter(_, _, _)
SqrtIter(v, lo, hi) ==
    IF lo >= hi THEN lo
    ELSE Const((lo + hi + 1) \div 2,
               LAMBDA mid : IF mid * mid <= v THEN SqrtIter(v, mid, hi)
                                              ELSE SqrtIter(v, lo, mid - 1))

\* the integer square root (46340 is the largest root of a 32-bit integer)
Sqrt(v) == Const(v, LAMBDA w : SqrtIter(w, 0, Min(w, 46340)))

\* the number of bits of a natural number
RECURSIVE Bits(_)
Bits(k) == IF k = 0 THEN 0 ELSE 1 + Bits(k \div 2)

\* k / 2^drop rounded to the nearest integer, ties to even
RoundShift(k, drop) ==
    LET q    == k \div 2^drop
        r    == k % 2^drop
        half == 2^(drop - 1)
    IN  IF r > half \/ (r = half /\ q % 2 = 1) THEN q + 1 ELSE q

\* the floating-point number nearest to m * 2^e, for a natural number m
FlNat(m, e) ==
    LET drop == Bits(m) - Precision
    IN  IF m = 0 THEN <<0, 0>>
        ELSE IF drop <= 0 THEN <<m * 2^(0 - drop), e + drop>>
        ELSE Const(RoundShift(m, drop), LAMBDA q :
                IF q = 2^Precision THEN <<2^(Precision - 1), e + drop + 1>>
                ELSE <<q, e + drop>>)

\* the floating-point number nearest to m * 2^e
Fl(m, e) ==
    IF m >= 0 THEN FlNat(m, e)
    ELSE Const(FlNat(0 - m, e), LAMBDA f : <<0 - f[1], f[2]>>)

Zero == <<0, 0>>
FromInt(k) == Fl(k, 0)
FNeg(a) == <<0 - a[1], a[2]>>

\* a + b.  When the exponents are more than Precision + 2 apart the smaller
\* operand is below a quarter of the last bit of the larger one.
FAdd(a, b) ==
    IF a[1] = 0 THEN b
    ELSE IF b[1] = 0 THEN a
    ELSE IF a[2] - b[2] > Precision + 2 THEN a
    ELSE IF b[2] - a[2] > Precision + 2 THEN b
    ELSE LET e == Min(a[2], b[2])
         IN  Fl(a[1] * 2^(a[2] - e) + b[1] * 2^(b[2] - e), e)

\* a - b
FSub(a, b) == FAdd(a, FNeg(b))

\* a * b
FMul(a, b) == Fl(a[1] * b[1], a[2] + b[2])

\* a / b for b # 0: the quotient is taken to Precision + 2 bits or more and
\* a last bit is set when the division leaves a remainder
FDiv(a, b) ==
    LET sign == IF (a[1] < 0) = (b[1] < 0) THEN 1 ELSE 0 - 1
        num  == Abs(a[1]) * 2^(Precision + 2)
        q    == num \div Abs(b[1])
        r    == num % Abs(b[1])
        e    == a[2] - b[2] - (Precision + 2)
    IN  IF r = 0 THEN Fl(sign * q, e)
        ELSE Fl(sign * (2 * q + 1), e - 1)

\* Math.sqrt(a) for a >= 0
FSqrt(a) ==
    LET k == IF (a[2] - (Precision + 2)) % 2 = 0
             THEN Precision + 2 ELSE Precision + 3
        m == a[1] * 2^k
        e == (a[2] - k) \div 2
    IN  Const(Sqrt(m), LAMBDA root :
            IF root * root = m THEN Fl(root, e)
            ELSE Fl(2 * root + 1, e - 1))

\* Math.hypot(a, b), taken as the root of the sum of the squares
Hypot(a, b) == FSqrt(FAdd(FMul(a, a), FMul(b, b)))

\* a < b  (a difference is rounded, but never to the other sign or to zero)
FLess(a, b) == FSub(a, b)[1] < 0

\* Math.max(a, b), Math.min(a, b)
FMax(a, b) == IF FLess(a, b) THEN b ELSE a
FMin(a, b) == IF FLess(b, a) THEN b ELSE a

\* s.reduce((sum, r) => sum + r, 0): a left fold starting from 0
RECURSIVE SumTo(_, _)
SumTo(s, k) ==
    IF k = 0 THEN Zero
    ELSE Const(SumTo(s, k - 1), LAMBDA sum : FAdd(sum, s[k]))

SumSeq(s) == SumTo(s, Len(s))

\* ------------------------------------------------------------ analyzeCircle
\* A point is <<x, y>> in whole pixels.
X(p) == FromInt(p[1])
Y(p) == FromInt(p[2])

\* 1. centroid
centerOf(path) ==
    LET n == Len(path)
    IN  << FDiv(SumSeq([i \in 1..n |-> X(path[i])]), FromInt(n)),
           FDiv(SumSeq([i \in 1..n |-> Y(path[i])]), FromInt(n)) >>

\* 2. radii
radiiOf(path, centerX, centerY) ==
    [i \in 1..Len(path) |->
        Hypot(FSub(X(path[i]), centerX), FSub(Y(path[i]), centerY))]

\* 3. mean radius
meanRadiusOf(radii) == FDiv(SumSeq(radii), FromInt(Len(radii)))

\* 4. standard deviation of the radii and 5. score from the deviation
scoreFromShape(radii, meanRadius) ==
    LET n == Len(radii)
        sq(r) == Const(FSub(r, meanRadius), LAMBDA d : FMul(d, d))
    IN  Const(FDiv(SumSeq([i \in 1..n |-> sq(radii[i])]), FromInt(n)),
              LAMBDA variance :
        Const(FSqrt(variance), LAMBDA stdDev :
        Const(FDiv(stdDev, meanRadius), LAMBDA normalizedDeviation :
            FMax(Zero,
                 FMul(FSub(FromInt(1),
                           FMul(normalizedDeviation,
                                FromInt(DeviationFactor))),
                      FromInt(FullScore))))))

\* 6. penalty for not being a closed loop
closingDistance(path) ==
    LET startPoint == path[1]
        endPoint   == path[Len(path)]
    IN  Hypot(FSub(X(endPoint), X(startPoint)),
              FSub(Y(endPoint), Y(startPoint)))

\* closingPenalty without Math.min(1, ...)
closingPenaltyUncapped(distance, meanRadius) ==
    FMul(FDiv(distance, meanRadius), FromInt(MaxClosingPenalty))

closingPenalty(distance, meanRadius) ==
    FMul(FMin(FromInt(1), FDiv(distance, meanRadius)),
         FromInt(MaxClosingPenalty))

\* finalScore without Math.max(0, ...)
finalScoreUnclamped(shape, penalty) == FSub(shape, penalty)

finalScore(shape, penalty) == FMax(Zero, FSub(shape, penalty))

\* steps 4 to 6 and the returned record
scoreCircle(path, centerX, centerY, radii, meanRadius) ==
    << [score  |-> finalScore(scoreFromShape(radii, meanRadius),
                              closingPenalty(closingDistance(path),
                                             meanRadius)),
        center |-> <<centerX, centerY>>,
        radius |-> meanRadius] >>

analyzeCircle(path) ==
    IF Len(path) < MinPoints THEN Null
    ELSE
        Const(centerOf(path), LAMBDA center :
        Const(radiiOf(path, center[1], center[2]), LAMBDA radii :
        Const(meanRadiusOf(radii), LAMBDA meanRadius :
            IF meanRadius = Zero THEN Null
            ELSE scoreCircle(path, center[1], center[2], radii,
                             meanRadius))))

\* analyzeCircle is pure: it is tabulated once over the paths the pointer can
\* produce, and the state machine looks its calls up in the table.
Paths == { [i \in 1..k |-> Trace(s, i)] : s \in Shapes, k \in 0..(MaxMoves + 1) }

analysisOf == [path \in Paths |-> analyzeCircle(path)]

\* ------------------------------------------------------------------- states
AppStates == {"IDLE", "DRAWING", "ANALYZING", "RESULT"}

Event(kind) == [kind |-> kind, from |-> appState]

\* the gesture history after an event that is not part of the gesture
Interrupted == [gesture EXCEPT !.from = "NONE"]

\* handleDrawing memoised with appState among its dependencies: a new
\* function object whenever the state has changed
handleDrawingRefPerState == <<appState>>

\* The function objects of handleDrawing and handleEndDrawing.  useCallback
\* returns the same function for as long as the values of its dependencies
\* are the same; the dependencies are [getCanvasCoordinates] (itself memoised
\* with no dependencies) and [handleDrawing], so the reference is the same on
\* every render.  It is identified by the values of its dependencies.
handleDrawingRef == <<>>

\* window.addEventListener(type, callback): a callback already in the list
\* for the same type is not added a second time
addEventListener(registered, callback) == registered \cup {callback}

\* window.removeEventListener(type, callback)
removeEventListener(registered, callback) == registered \ {callback}

\* k copies of x
Repeat(x, k) == [i \in 1..k |-> x]

\* The events that call handleStartDrawing, as <<coords, extraTouch'>>.  The
\* event comes from the pointer that draws (a mouse button or the first touch
\* contact, at the start of a trace), or, while a gesture is in progress, from
\* a further touch contact landing on the canvas: `touches[0]` is then still
\* the first contact, whose position is the last point recorded.  A further
\* contact lands only while the first one rests on the start of a trace.
StartEvents ==
    { <<coords, extraTouch>> : coords \in StartPoints }
        \cup IF appState = "DRAWING" /\ points[Len(points)] \in StartPoints
             THEN { <<points[Len(points)], TRUE>> }
             ELSE {}

\* The event that calls handleEndDrawing comes from the pointer that draws or
\* from the further touch contact being lifted.
TouchesAfterEnd == {extraTouch, FALSE}

Init ==
    /\ impl \in {"window", "canvas"}
    /\ mounted = TRUE
    /\ appState = "IDLE"
    /\ points = <<>>
    /\ result = Null
    /\ copyStatus = "IDLE"
    /\ listeners = {}
    /\ extraTouch = FALSE
    /\ timers = <<>>
    /\ copyTimers = FALSE
    /\ lastEvent = [kind |-> "mount", from |-> "IDLE"]
    /\ gesture = [from |-> "IDLE", moves |-> 0]
    /\ lastFinalized = <<>>
    /\ scoredShort = FALSE

\* ----------------------------------------------- src/unnamed/part_000 ("window")
\* handleStartDrawing without setCopyStatus('IDLE')
handleStartDrawingKeepsCopied ==
    /\ impl = "window" /\ mounted
    /\ \E ev \in StartEvents :
        /\ appState' = "DRAWING"
        /\ result' = Null
        /\ points' = <<ev[1]>>
        /\ extraTouch' = ev[2]
        /\ listeners' = addEventListener(listeners, handleDrawingRef)
    /\ lastEvent' = Event("start")
    /\ gesture' = [from |-> appState, moves |-> 0]
    /\ UNCHANGED <<impl, mounted, copyStatus, timers, copyTimers,
                   lastFinalized, scoredShort>>

\* canvas onMouseDown / onTouchStart
handleStartDrawing ==
    /\ impl = "window" /\ mounted
    /\ \E ev \in StartEvents :
        /\ appState' = "DRAWING"
        /\ result' = Null
        /\ copyStatus' = "IDLE"
        /\ points' = <<ev[1]>>
        /\ extraTouch' = ev[2]
        /\ listeners' = addEventListener(listeners, handleDrawingRef)
    /\ lastEvent' = Event("start")
    /\ gesture' = [from |-> appState, moves |-> 0]
    /\ UNCHANGED <<impl, mounted, timers, copyTimers, lastFinalized, scoredShort>>

\* handleDrawing skipping a sample equal to the last recorded point
handleDrawingDropsRepeat ==
    /\ impl = "window" /\ mounted /\ listeners # {}
    /\ gesture.moves < MaxMoves
    /\ \E coords \in NextPoints(points) :
        points' = IF points # <<>> /\ points[Len(points)] = coords
                  THEN points
                  ELSE points \o Repeat(coords, Cardinality(listeners))
    /\ lastEvent' = Event("move")
    /\ gesture' = [gesture EXCEPT !.moves = @ + 1]
    /\ UNCHANGED <<impl, mounted, appState, result, copyStatus, listeners,
                   timers, copyTimers, lastFinalized, scoredShort>>
    /\ UNCHANGED extraTouch

\* window mousemove / touchmove, while the listeners are registered
handleDrawing ==
    /\ impl = "window" /\ mounted /\ listeners # {}
    /\ gesture.moves < MaxMoves
    /\ \E coords \in NextPoints(points) :
        \* every registered listener receives the event and appends
        points' = points \o Repeat(coords, Cardinality(listeners))
    /\ lastEvent' = Event("move")
    /\ gesture' = [gesture EXCEPT !.moves = @ + 1]
    /\ UNCHANGED <<impl, mounted, appState, result, copyStatus, listeners,
                   timers, copyTimers, lastFinalized, scoredShort>>
    /\ UNCHANGED extraTouch

\* handleEndDrawing with the short branch returning currentPoints, not []
handleEndDrawingKeepsShortPath ==
    /\ impl = "window" /\ mounted /\ listeners # {}
    /\ listeners' = removeEventListener(listeners, handleDrawingRef)
    /\ IF Len(points) < MinPoints
       THEN /\ appState' = "IDLE"
            /\ result' = Null
            /\ UNCHANGED <<points, timers, lastFinalized>>
       ELSE /\ Len(timers) < MaxTimers
            /\ appState' = "ANALYZING"
            /\ timers' = Append(timers, points)
            /\ lastFinalized' = points
            /\ UNCHANGED <<points, result>>
    /\ lastEvent' = Event("end")
    /\ UNCHANGED <<impl, mounted, copyStatus, copyTimers, gesture, scoredShort>>
    /\ extraTouch' \in TouchesAfterEnd

\* handleEndDrawing with the threshold off by one (length < 9)
handleEndDrawingOffByOne ==
    /\ impl = "window" /\ mounted /\ listeners # {}
    /\ listeners' = removeEventListener(listeners, handleDrawingRef)
    /\ IF Len(points) < MinPoints - 1
       THEN /\ appState' = "IDLE"
            /\ result' = Null
            /\ points' = <<>>
            /\ UNCHANGED <<timers, lastFinalized>>
       ELSE /\ Len(timers) < MaxTimers
            /\ appState' = "ANALYZING"
            /\ timers' = Append(timers, points)
            /\ lastFinalized' = points
            /\ UNCHANGED <<points, result>>
    /\ lastEvent' = Event("end")
    /\ UNCHANGED <<impl, mounted, copyStatus, copyTimers, gesture, scoredShort>>
    /\ extraTouch' \in TouchesAfterEnd

\* handleEndDrawing with the valid branch returning [] as well
handleEndDrawingClearsPath ==
    /\ impl = "window" /\ mounted /\ listeners # {}
    /\ listeners' = removeEventListener(listeners, handleDrawingRef)
    /\ IF Len(points) < MinPoints
       THEN /\ appState' = "IDLE"
            /\ result' = Null
            /\ points' = <<>>
            /\ UNCHANGED <<timers, lastFinalized>>
       ELSE /\ Len(timers) < MaxTimers
            /\ appState' = "ANALYZING"
            /\ timers' = Append(timers, points)
            /\ lastFinalized' = points
            /\ points' = <<>>
            /\ UNCHANGED result
    /\ lastEvent' = Event("end")
    /\ UNCHANGED <<impl, mounted, copyStatus, copyTimers, gesture, scoredShort>>
    /\ extraTouch' \in TouchesAfterEnd

\* handleEndDrawing without the setTimeout call
handleEndDrawingNoTimeout ==
    /\ impl = "window" /\ mounted /\ listeners # {}
    /\ listeners' = removeEventListener(listeners, handleDrawingRef)
    /\ IF Len(points) < MinPoints
       THEN /\ appState' = "IDLE"
            /\ result' = Null
            /\ points' = <<>>
            /\ UNCHANGED <<timers, lastFinalized>>
       ELSE /\ appState' = "ANALYZING"
            /\ lastFinalized' = points
            /\ UNCHANGED <<points, result, timers>>
    /\ lastEvent' = Event("end")
    /\ UNCHANGED <<impl, mounted, copyStatus, copyTimers, gesture, scoredShort>>
    /\ extraTouch' \in TouchesAfterEnd

\* window mouseup / touchend, while the listeners are registered
handleEndDrawing ==
    /\ impl = "window" /\ mounted /\ listeners # {}
    /\ listeners' = removeEventListener(listeners, handleDrawingRef)
    /\ IF Len(points) < MinPoints
       THEN /\ appState' = "IDLE"
            /\ result' = Null
            /\ points' = <<>>
            /\ UNCHANGED <<timers, lastFinalized>>
       ELSE /\ Len(timers) < MaxTimers
            /\ appState' = "ANALYZING"
            /\ timers' = Append(timers, points)
            /\ lastFinalized' = points
            /\ UNCHANGED <<points, result>>
    /\ lastEvent' = Event("end")
    /\ UNCHANGED <<impl, mounted, copyStatus, copyTimers, gesture, scoredShort>>
    /\ extraTouch' \in TouchesAfterEnd

\* handleReset without setPoints([])
handleResetKeepsPath ==
    /\ impl = "window" /\ mounted
    /\ appState = "RESULT"
    /\ appState' = "IDLE"
    /\ result' = Null
    /\ copyStatus' = "IDLE"
    /\ lastEvent' = Event("reset")
    /\ gesture' = Interrupted
    /\ UNCHANGED <<impl, mounted, points, listeners, timers, copyTimers,
                   lastFinalized, scoredShort>>
    /\ UNCHANGED extraTouch

\* "Try Again" button, rendered only while appState is RESULT
handleReset ==
    /\ impl = "window" /\ mounted
    /\ appState = "RESULT"
    /\ appState' = "IDLE"
    /\ points' = <<>>
    /\ result' = Null
    /\ copyStatus' = "IDLE"
    /\ lastEvent' = Event("reset")
    /\ gesture' = Interrupted
    /\ UNCHANGED <<impl, mounted, listeners, timers, copyTimers,
                   lastFinalized, scoredShort>>
    /\ UNCHANGED extraTouch

\* "Share" button, rendered while appState is RESULT, disabled while COPIED
handleShare ==
    /\ impl = "window" /\ mounted
    /\ appState = "RESULT" /\ copyStatus # "COPIED"
    /\ \E written \in BOOLEAN :
        IF result # Null /\ written
        THEN /\ copyStatus' = "COPIED"
             /\ copyTimers' = TRUE
        ELSE UNCHANGED <<copyStatus, copyTimers>>
    /\ UNCHANGED <<impl, mounted, appState, points, result, listeners, timers,
                   lastEvent, gesture, lastFinalized, scoredShort>>
    /\ UNCHANGED extraTouch

\* setTimeout(() => setCopyStatus('IDLE'), 2000).  The number of pending
\* timeouts is not counted: after one fires, another may or may not remain.
copyTimeout ==
    /\ copyTimers
    /\ copyTimers' \in BOOLEAN
    /\ copyStatus' = IF mounted THEN "IDLE" ELSE copyStatus
    /\ UNCHANGED <<impl, mounted, appState, points, result, listeners, timers,
                   lastEvent, gesture, lastFinalized, scoredShort>>
    /\ UNCHANGED extraTouch

\* touchend of a further contact while no listener is registered on the
\* window: no handler runs
touchEndUnheard ==
    /\ impl = "window" /\ mounted /\ listeners = {}
    /\ extraTouch
    /\ extraTouch' = FALSE
    /\ UNCHANGED <<impl, mounted, appState, points, result, copyStatus,
                   listeners, timers, copyTimers, lastEvent, gesture,
                   lastFinalized, scoredShort>>

\* unmount: the cleanup effect removes the window listeners
cleanup ==
    /\ impl = "window" /\ mounted
    /\ mounted' = FALSE
    /\ listeners' = removeEventListener(listeners, handleDrawingRef)
    /\ lastEvent' = Event("unmount")
    /\ gesture' = Interrupted
    /\ UNCHANGED <<impl, appState, points, result, copyStatus, timers,
                   copyTimers, lastFinalized, scoredShort>>
    /\ extraTouch' = FALSE

\* ------------------------------------------------------ src/App.tsx ("canvas")
\* canvas onMouseDown / onTouchStart
handleStartDrawingCanvas ==
    /\ impl = "canvas" /\ mounted
    /\ \E ev \in StartEvents :
        /\ appState' = "DRAWING"
        /\ result' = Null
        /\ points' = <<ev[1]>>
        /\ extraTouch' = ev[2]
    /\ lastEvent' = Event("start")
    /\ gesture' = [from |-> appState, moves |-> 0]
    /\ UNCHANGED <<impl, mounted, copyStatus, listeners, timers, copyTimers,
                   lastFinalized, scoredShort>>

\* canvas onMouseMove / onTouchMove
handleDrawingCanvas ==
    /\ impl = "canvas" /\ mounted
    /\ gesture.moves < MaxMoves
    /\ IF appState # "DRAWING"
       THEN UNCHANGED points
       ELSE \E coords \in NextPoints(points) :
                points' = Append(points, coords)
    /\ lastEvent' = Event("move")
    /\ gesture' = [gesture EXCEPT !.moves = @ + 1]
    /\ UNCHANGED <<impl, mounted, appState, result, copyStatus, listeners,
                   timers, copyTimers, lastFinalized, scoredShort>>
    /\ UNCHANGED extraTouch

\* canvas onMouseUp / onMouseLeave / onTouchEnd
handleEndDrawingCanvas ==
    /\ impl = "canvas" /\ mounted
    /\ IF appState # "DRAWING" \/ Len(points) < MinPoints
       THEN /\ appState' = "IDLE"
            /\ points' = <<>>
            /\ result' = Null
            /\ UNCHANGED <<timers, lastFinalized>>
       ELSE /\ Len(timers) < MaxTimers
            /\ appState' = "ANALYZING"
            /\ timers' = Append(timers, points)
            /\ lastFinalized' = points
            /\ UNCHANGED <<points, result>>
    /\ lastEvent' = Event("end")
    /\ UNCHANGED <<impl, mounted, copyStatus, listeners, copyTimers, gesture,
                   scoredShort>>
    /\ extraTouch' \in TouchesAfterEnd

\* "Try Again" button, rendered only while appState is RESULT
handleResetCanvas ==
    /\ impl = "canvas" /\ mounted
    /\ appState = "RESULT"
    /\ appState' = "IDLE"
    /\ points' = <<>>
    /\ result' = Null
    /\ lastEvent' = Event("reset")
    /\ gesture' = Interrupted
    /\ UNCHANGED <<impl, mounted, copyStatus, listeners, timers, copyTimers,
                   lastFinalized, scoredShort>>
    /\ UNCHANGED extraTouch

\* unmount: this version registers nothing to clean up
unmountCanvas ==
    /\ impl = "canvas" /\ mounted
    /\ mounted' = FALSE
    /\ lastEvent' = Event("unmount")
    /\ gesture' = Interrupted
    /\ UNCHANGED <<impl, appState, points, result, copyStatus, listeners,
                   timers, copyTimers, lastFinalized, scoredShort>>
    /\ extraTouch' = FALSE

\* ------------------------------------------------------------ both versions
\* the callback routing a null analysis back to IDLE
analysisTimeoutIdleOnNull ==
    /\ timers # <<>>
    /\ LET currentPoints == Head(timers)
           analysis == analysisOf[currentPoints]
       IN  /\ scoredShort' = (scoredShort \/ Len(currentPoints) < MinPoints)
           /\ IF mounted
              THEN /\ result' = analysis
                   /\ appState' = IF analysis = Null THEN "IDLE" ELSE "RESULT"
              ELSE UNCHANGED <<result, appState>>
    /\ timers' = Tail(timers)
    /\ lastEvent' = Event("timeout")
    /\ gesture' = Interrupted
    /\ UNCHANGED <<impl, mounted, points, copyStatus, listeners, copyTimers,
                   lastFinalized>>
    /\ UNCHANGED extraTouch

\* the callback scoring the live Path instead of the captured one
analysisTimeoutScoresLivePath ==
    /\ timers # <<>>
    /\ LET currentPoints == points
           analysis == analysisOf[currentPoints]
       IN  /\ scoredShort' = (scoredShort \/ Len(currentPoints) < MinPoints)
           /\ IF mounted
              THEN /\ result' = analysis
                   /\ appState' = "RESULT"
              ELSE UNCHANGED <<result, appState>>
    /\ timers' = Tail(timers)
    /\ lastEvent' = Event("timeout")
    /\ gesture' = Interrupted
    /\ UNCHANGED <<impl, mounted, points, copyStatus, listeners, copyTimers,
                   lastFinalized>>
    /\ UNCHANGED extraTouch

\* the setTimeout callback of handleEndDrawing; the timeouts have the same
\* delay, so they fire in the order they were scheduled.  State setters of an
\* unmounted component change nothing.
analysisTimeout ==
    /\ timers # <<>>
    /\ LET currentPoints == Head(timers)
           analysis == analysisOf[currentPoints]
       IN  /\ scoredShort' = (scoredShort \/ Len(currentPoints) < MinPoints)
           /\ IF mounted
              THEN /\ result' = analysis
                   /\ appState' = "RESULT"
              ELSE UNCHANGED <<result, appState>>
    /\ timers' = Tail(timers)
    /\ lastEvent' = Event("timeout")
    /\ gesture' = Interrupted
    /\ UNCHANGED <<impl, mounted, points, copyStatus, listeners, copyTimers,
                   lastFinalized>>
    /\ UNCHANGED extraTouch

Next ==
    \/ handleStartDrawing
    \/ handleDrawing
    \/ handleEndDrawing
    \/ handleReset
    \/ handleShare
    \/ copyTimeout
    \/ touchEndUnheard
    \/ cleanup
    \/ handleStartDrawingCanvas
    \/ handleDrawingCanvas
    \/ handleEndDrawingCanvas
    \/ handleResetCanvas
    \/ unmountCanvas
    \/ analysisTimeout

Spec == Init /\ [][Next]_vars

\* The event loop runs every timeout that is due.
FairSpec == Spec /\ WF_vars(analysisTimeout)

TypeOK ==
    /\ impl \in {"window", "canvas"}
    /\ mounted \in BOOLEAN
    /\ appState \in AppStates
    /\ Len(points) <= MaxMoves + 1
    /\ Len(result) <= 1
    /\ copyStatus \in {"IDLE", "COPIED"}
    /\ listeners \subseteq {handleDrawingRef}
    /\ extraTouch \in BOOLEAN
    /\ Len(timers) <= MaxTimers
    /\ copyTimers \in BOOLEAN

\* ------------------------------------------------- analyzeCircle on its own
\* The paths handed to analyzeCircle: arcs of two polygons around (5, 5) (the
\* ring of the pointer traces and the twelve whole-pixel points at distance 5),
\* as drawn and moved to coordinates that need every bit of a number; a
\* straight line; and one point repeated.
Circle == << <<10, 5>>, <<9, 8>>, <<8, 9>>, <<5, 10>>, <<2, 9>>, <<1, 8>>,
             <<0, 5>>, <<1, 2>>, <<2, 1>>, <<5, 0>>, <<8, 1>>, <<9, 2>> >>

\* the arc of k points of a polygon from its j-th point on, moved by d pixels
Arc(polygon, j, k, d) ==
    [i \in 1..k |->
        LET p == polygon[((j + i - 2) % Len(polygon)) + 1]
        IN  <<p[1] + d, p[2] + d>>]

\* the largest offset that keeps the coordinates exact
FarOffset == 2^Precision - 11

Line(k) == [i \in 1..k |-> <<i - 1, 0>>]

DotCoords == {5} \cup ((2^Precision - 16)..(2^Precision - 1))

ScoreInputs ==
    { Arc(polygon, j, k, d) :
        polygon \in {Ring, Circle}, j \in 1..12, k \in 0..MaxPathLen,
        d \in {0, FarOffset} }
    \cup { Line(k) : k \in 0..MaxPathLen }
    \cup { [i \in 1..k |-> <<c, c>>] : c \in DotCoords, k \in 0..MaxPathLen }

ScoreInit ==
    /\ points \in ScoreInputs
    /\ result = Null
    /\ lastEvent = [kind |-> "input", from |-> "IDLE"]
    /\ impl = "window"
    /\ mounted = TRUE
    /\ appState = "IDLE"
    /\ copyStatus = "IDLE"
    /\ listeners = {}
    /\ extraTouch = FALSE
    /\ timers = <<>>
    /\ copyTimers = FALSE
    /\ gesture = [from |-> "NONE", moves |-> 0]
    /\ lastFinalized = <<>>
    /\ scoredShort = FALSE

\* const analysis = analyzeCircle(path)
scorePath ==
    /\ lastEvent.kind = "input"
    /\ result' = analyzeCircle(points)
    /\ lastEvent' = [kind |-> "scored", from |-> "IDLE"]
    /\ UNCHANGED <<impl, mounted, appState, points, copyStatus, listeners,
                   extraTouch, timers, copyTimers, gesture, lastFinalized,
                   scoredShort>>

ScoreNext == scorePath

ScoreSpec == ScoreInit /\ [][ScoreNext]_vars

\* the values analyzeCircle computes on the way, for a path it scores
radiiIn(path) ==
    Const(centerOf(path), LAMBDA center :
        radiiOf(path, center[1], center[2]))
meanRadiusIn(path) == meanRadiusOf(radiiIn(path))
scoreFromShapeIn(path) ==
    Const(radiiIn(path), LAMBDA radii :
        scoreFromShape(radii, meanRadiusOf(radii)))
closingPenaltyIn(path) ==
    closingPenalty(closingDistance(path), meanRadiusIn(path))

\* a - b = k exactly, for numbers a, b with no exponent above 0
DiffersBy(a, b, k) ==
    LET e == Min(a[2], b[2])
    IN  a[1] * 2^(a[2] - e) - b[1] * 2^(b[2] - e) = k * 2^(0 - e)

\* The paths of at least MinPoints points on the circle of radius 5 around
\* (5, 5).  (Moved by FarOffset the same points are no longer told apart
\* from noise by Precision bits; with 53 bits that takes coordinates beyond
\* 10^15 pixels.)
CircleArcs ==
    { Arc(Circle, j, k, 0) : j \in 1..12, k \in MinPoints..MaxPathLen }

AllIdentical(path) == \A i \in 1..Len(path) : path[i] = path[1]

\* ------------------------------------------------------- events, by meaning
\* a gesture-start / gesture-end / explicit reset event of either version
GestureStart == handleStartDrawing \/ handleStartDrawingCanvas
GestureMove  == handleDrawing \/ handleDrawingCanvas
GestureEnd   == handleEndDrawing \/ handleEndDrawingCanvas
ExplicitReset == handleReset \/ handleResetCanvas
Teardown == cleanup \/ unmountCanvas

\* ------------------------------------------------------------------ claims

\* C1: while the state is Analyzing a gesture-start event is ignored: the
\* state stays Analyzing and the Path is left unchanged.
StartIgnoredWhileAnalyzing ==
    [][ (GestureStart /\ appState = "ANALYZING")
            => (appState' = "ANALYZING" /\ points' = points) ]_vars

\* C2: the deferred callback firing while the state is no longer Analyzing
\* is a no-op: state, Path and AnalysisResult are left unchanged.
StaleTimeoutIsNoOp ==
    [][ (analysisTimeout /\ appState # "ANALYZING")
            => UNCHANGED <<appState, points, result>> ]_vars

\* C3: a non-null AnalysisResult is the score of the Path most recently
\* finalized by a gesture-end with at least MinPoints points, and that Path
\* is the current Path.
ResultMatchesFinalizedPath ==
    result # Null =>
        /\ result = analysisOf[lastFinalized]
        /\ points = lastFinalized

\* C4: a gesture-end in Drawing with fewer than MinPoints points moves the
\* state to Idle, empties the Path, clears the AnalysisResult and schedules
\* no deferred callback.
ShortGestureDiscarded ==
    [][ (GestureEnd /\ appState = "DRAWING" /\ Len(points) < MinPoints)
            => /\ appState' = "IDLE"
               /\ points' = <<>>
               /\ result' = Null
               /\ timers' = timers ]_vars

ShortGestureEnded ==
    /\ lastEvent = [kind |-> "end", from |-> "DRAWING"]
    /\ gesture.moves + 1 < MinPoints
    /\ gesture.moves > 0
    /\ appState = "IDLE"
    /\ points = <<>>

\* C5 as stated: from Idle, gesture-start, exactly 9 gesture-moves and
\* gesture-end finish in Idle with an empty Path and a null AnalysisResult.
\* (gesture.from is "IDLE" only while nothing but move and end events have
\* followed a gesture-start received in Idle.)
NineMovesEndInIdle ==
    ( /\ lastEvent = [kind |-> "end", from |-> "DRAWING"]
      /\ gesture = [from |-> "IDLE", moves |-> 9] )
        => (appState = "IDLE" /\ points = <<>> /\ result = Null)

\* C5 amended: from Idle, gesture-start, exactly 8 gesture-moves (9 points)
\* and gesture-end finish in Idle with an empty Path and a null
\* AnalysisResult.
EightMovesEndInIdle ==
    ( /\ lastEvent = [kind |-> "end", from |-> "DRAWING"]
      /\ gesture = [from |-> "IDLE", moves |-> 8] )
        => (appState = "IDLE" /\ points = <<>> /\ result = Null)

EightMovesEnded ==
    /\ lastEvent = [kind |-> "end", from |-> "DRAWING"]
    /\ gesture = [from |-> "IDLE", moves |-> 8]
    /\ appState = "IDLE"

\* C6 as stated: when the scoring function returns null for the finalized
\* path, the callback routes the state machine to Idle, not to Result.
NullScoreRoutesToIdle ==
    [][ (analysisTimeout /\ mounted /\ analysisOf[Head(timers)] = Null)
            => (appState' = "IDLE" /\ appState' # "RESULT") ]_vars

\* C6 amended: when the scoring function returns null for the finalized
\* path, the callback moves the state to Result with a null AnalysisResult.
NullScoreShowsEmptyResult ==
    [][ (analysisTimeout /\ mounted /\ analysisOf[Head(timers)] = Null)
            => (appState' = "RESULT" /\ result' = Null) ]_vars

NullScoreShown ==
    /\ lastEvent = [kind |-> "timeout", from |-> "ANALYZING"]
    /\ mounted
    /\ Len(points) >= MinPoints
    /\ analysisOf[points] = Null
    /\ appState = "RESULT"
    /\ result = Null

\* C7: a gesture-end in Drawing with at least MinPoints points moves the
\* state to Analyzing and leaves the Path exactly as it was.
ValidGestureKeepsPath ==
    [][ (GestureEnd /\ appState = "DRAWING" /\ Len(points) >= MinPoints)
            => (appState' = "ANALYZING" /\ points' = points) ]_vars

ValidGestureEnded ==
    /\ lastEvent = [kind |-> "end", from |-> "DRAWING"]
    /\ appState = "ANALYZING"
    /\ Len(points) >= MinPoints
    /\ points = lastFinalized

\* C8 as stated: every entry into Analyzing is eventually followed by the
\* state Result.
AnalyzingLeadsToResult ==
    (appState = "ANALYZING") ~> (appState = "RESULT")

\* C8 amended: every entry into Analyzing is eventually followed by the
\* state Result unless the component is unmounted first; the callback, when
\* it fires on the mounted component, always moves the state to Result.
AnalyzingLeadsToResultWhileMounted ==
    /\ (appState = "ANALYZING" /\ mounted)
            ~> (appState = "RESULT" \/ ~mounted)
    /\ [][ (analysisTimeout /\ mounted) => appState' = "RESULT" ]_vars

ResultAfterAnalyzing ==
    /\ lastEvent = [kind |-> "timeout", from |-> "ANALYZING"]
    /\ mounted
    /\ appState = "RESULT"
    /\ result # Null

\* C9: the scoring function is only ever called with a path of at least
\* MinPoints points, whatever happens between the gesture-end that schedules
\* the callback and the callback firing.
ScoringOnlyOnLongPaths ==
    /\ ~scoredShort
    /\ \A i \in 1..Len(timers) : Len(timers[i]) >= MinPoints

ScoredAfterInterleavedStart ==
    /\ lastEvent = [kind |-> "timeout", from |-> "DRAWING"]
    /\ Len(points) < MinPoints
    /\ ~scoredShort

\* C10: an explicit reset issued in Result yields Idle with an empty Path
\* and a null AnalysisResult.
ResetClearsEverything ==
    lastEvent = [kind |-> "reset", from |-> "RESULT"]
        => (appState = "IDLE" /\ points = <<>> /\ result = Null)

ResetAfterResult ==
    /\ lastEvent = [kind |-> "reset", from |-> "RESULT"]
    /\ lastFinalized # <<>>
    /\ appState = "IDLE"

\* C11: a gesture-start at p received in Result leaves exactly what a
\* gesture-start at p received in Idle leaves: state Drawing, a null
\* AnalysisResult, the Path [p], the copied feedback cleared and the
\* listeners registered once; nothing of the previous Path or result remains.
StartInResultAsInIdle ==
    [][ (GestureStart /\ appState \in {"IDLE", "RESULT"})
            => /\ appState' = "DRAWING"
               /\ result' = Null
               /\ copyStatus' = "IDLE"
               /\ \E p \in StartPoints : points' = <<p>>
               /\ listeners' =
                     IF impl = "window" THEN {handleDrawingRef} ELSE {} ]_vars

StartedOverCopiedResult ==
    /\ lastEvent = [kind |-> "start", from |-> "RESULT"]
    /\ lastFinalized # <<>>
    /\ copyTimers
    /\ appState = "DRAWING"
    /\ Len(points) = 1
    /\ result = Null
    /\ copyStatus = "IDLE"

\* C12: a gesture-move received in Drawing appends exactly one point, the
\* pointer position of the event: the Path grows by one, the points recorded
\* before are unchanged and the state stays Drawing.
MoveAppendsOnePoint ==
    [][ (GestureMove /\ appState = "DRAWING")
            => /\ Len(points') = Len(points) + 1
               /\ SubSeq(points', 1, Len(points)) = points
               /\ points'[Len(points')] \in NextPoints(points)
               /\ appState' = "DRAWING" ]_vars

RepeatedSampleRecorded ==
    /\ lastEvent = [kind |-> "move", from |-> "DRAWING"]
    /\ appState = "DRAWING"
    /\ Len(points) >= 3
    /\ Len(points) = gesture.moves + 1
    /\ points[Len(points)] = points[Len(points) - 1]

\* C13: after every gesture-end and after teardown no move/end listener is
\* registered; a gesture-start never leaves more than one registration; no
\* move event is appended to the Path more than once.
ListenersSymmetricAndIdempotent ==
    [][ /\ (GestureEnd \/ Teardown) => listeners' = {}
        /\ GestureStart => Cardinality(listeners') <= 1
        /\ GestureMove => Len(points') <= Len(points) + 1 ]_vars

MovedAfterRepeatedStart ==
    /\ impl = "window"
    /\ lastEvent.kind = "move"
    /\ gesture = [from |-> "DRAWING", moves |-> 1]
    /\ Cardinality(listeners) = 1
    /\ Len(points) = 2

\* C14: once the component has been torn down while Drawing, no listener is
\* registered, the scoring function is not called (no analysis callback
\* runs) and state, Path and AnalysisResult are never updated.
TeardownWhileDrawingIsFinal ==
    [][ (~mounted /\ appState = "DRAWING")
            => /\ listeners = {}
               /\ ~analysisTimeout
               /\ UNCHANGED <<appState, points, result>> ]_vars

\* C15: during Drawing a further touch contact is ignored: its touch-start
\* does not reset the Path and its touch-end does not end the gesture.
ExtraTouchIgnored ==
    [][ /\ (GestureStart /\ appState = "DRAWING"
                /\ ~extraTouch /\ extraTouch')
            => (appState' = "DRAWING" /\ points' = points)
        /\ (GestureEnd /\ appState = "DRAWING"
                /\ extraTouch /\ ~extraTouch')
            => (appState' = "DRAWING" /\ points' = points) ]_vars

\* C16: the Path is empty in Idle, holds at least one point in Drawing and
\* at least MinPoints points in Analyzing and in Result.
PathLengthMatchesState ==
    /\ appState = "IDLE" => Len(points) = 0
    /\ appState = "DRAWING" => Len(points) >= 1
    /\ appState \in {"ANALYZING", "RESULT"} => Len(points) >= MinPoints

\* C17: every non-null result of the scoring function has a score from 0 to
\* 100 and a radius above 0.
ScoreAndRadiusInRange ==
    (lastEvent.kind = "scored" /\ result # Null)
        => /\ ~FLess(result[1].score, Zero)
           /\ ~FLess(FromInt(FullScore), result[1].score)
           /\ FLess(Zero, result[1].radius)

ScoredZero ==
    /\ lastEvent.kind = "scored"
    /\ result # Null
    /\ result[1].score = Zero
    /\ FLess(scoreFromShapeIn(points), closingPenaltyIn(points))

\* C18: the scoring function returns null for every path of fewer than
\* MinPoints points and for every path whose points are all identical, and a
\* non-null result for every path of at least MinPoints points that are not
\* all identical.
NullExactlyWhenDegenerate ==
    lastEvent.kind = "scored"
        => (result = Null
                <=> (Len(points) < MinPoints \/ AllIdentical(points)))

\* C19: the closing penalty is min(1, closingDistance / meanRadius) * 25: it
\* is never above 25, and it is 25 when the gap between the first and the
\* last point is at least the mean radius; the final score is then the shape
\* score less 25 (or 0 for a shape score below 25), and for the points of a
\* circle with such a gap it is exactly 25 below the shape score.
ClosingPenaltyCapped ==
    (lastEvent.kind = "scored" /\ result # Null)
        => LET distance == closingDistance(points)
               meanRadius == result[1].radius
               penalty == closingPenaltyIn(points)
               shape == scoreFromShapeIn(points)
           IN  /\ ~FLess(FromInt(MaxClosingPenalty), penalty)
               /\ FLess(distance, meanRadius)
                    => penalty = FMul(FDiv(distance, meanRadius),
                                      FromInt(MaxClosingPenalty))
               /\ ~FLess(distance, meanRadius)
                    => /\ penalty = FromInt(MaxClosingPenalty)
                       /\ IF FLess(shape, penalty)
                          THEN result[1].score = Zero
                          ELSE DiffersBy(shape, result[1].score,
                                         MaxClosingPenalty)
                       /\ points \in CircleArcs
                            => DiffersBy(shape, result[1].score,
                                         MaxClosingPenalty)

OpenArcScored ==
    /\ lastEvent.kind = "scored"
    /\ result # Null
    /\ points \in CircleArcs
    /\ FLess(result[1].radius, closingDistance(points))
    /\ DiffersBy(scoreFromShapeIn(points), result[1].score, MaxClosingPenalty)

\* C20: at most one deferred analysis callback is pending at any time.
SingleCallbackPending ==
    Len(timers) <= 1

\* C21: once the state is Result, the state, the Path and the
\* AnalysisResult stay as they are until an explicit reset or a gesture-start:
\* no gesture-move, gesture-end, pointer-leave or deferred callback alters
\* them.
ResultIsStable ==
    [][ (appState = "RESULT" /\ ~(GestureStart \/ ExplicitReset))
            => UNCHANGED <<appState, points, result>> ]_vars

\* C22: a non-null AnalysisResult implies the state Result: the result is
\* null whenever the state is Idle, Drawing or Analyzing.
ResultOnlyInResult ==
    result # Null => appState = "RESULT"

====
